---- MODULE Spec2Model ----
(***************************************************************************)
(* marstek2mqtt: the Poller (Poller.js, kept in src/unnamed/part_000) and  *)
(* the MqttClient bridge (src/MqttClient.js, the current version at lines  *)
(* 223-425).                                                               *)
(*                                                                         *)
(* Node runs every handler to its next await without interruption, so one  *)
(* action is one such run: from a timer, a promise settlement or an MQTT   *)
(* message up to the next transport call that is awaited.                  *)
(*                                                                         *)
(* Strings the code takes apart are sequences: a topic is a sequence of    *)
(* segments with "/" between them, a payload and a label are sequences of  *)
(* characters.                                                             *)
(***************************************************************************)
EXTENDS Integers, Sequences, FiniteSets, TLC

\* ------------------------------------------------------------------ bounds

\* pollingLoop invocations that can be alive at once (slots of inv).
MaxInv == 2

\* Listeners registered with onData.
MaxListeners == 2

\* Command writes awaiting their response.
MaxInFlight == 1

\* The clock is read at StartTime + a + b * AutoconfInterval seconds, for a
\* and b up to this.
MaxClock == 1

\* The clock is read up to this many seconds after StartTime when the delay
\* of the next tick is computed.
MaxElapsed == 12

\* Poll intervals up to this are tried.
MaxInterval == 7

\* ------------------------------------------------------- program constants

\* Time is counted in seconds: Date.now() / 1000 at start-up.
StartTime == 1700000000

\* Discovery metadata is republished when older than this: 4 * 60 * 60 *
\* 1000 ms, in seconds.
AutoconfInterval == 4 * 60 * 60

\* ---------------------------------------------------------------- strings

\* The number parseInt returns when it read no digit.
NaN == [nan |-> TRUE, value |-> 0]

Number(n) == [nan |-> FALSE, value |-> n]

Digits == <<"0", "1", "2", "3", "4", "5", "6", "7", "8", "9">>

IsDigit(c) == \E d \in 1..10 : Digits[d] = c

DigitVal(c) == (CHOOSE d \in 1..10 : Digits[d] = c) - 1

IsWhitespace(c) == c \in {" ", "\t", "\n"}

RECURSIVE TrimStart(_)
TrimStart(s) ==
  IF s # <<>> /\ IsWhitespace(Head(s)) THEN TrimStart(Tail(s)) ELSE s

\* Value of the longest prefix of decimal digits of s, started from acc;
\* seen says whether a digit was consumed.
RECURSIVE DigitPrefix(_, _, _)
DigitPrefix(s, acc, seen) ==
  IF s # <<>> /\ IsDigit(Head(s))
    THEN DigitPrefix(Tail(s), acc * 10 + DigitVal(Head(s)), TRUE)
    ELSE [value |-> acc, seen |-> seen]

\* parseInt(string, 10): leading whitespace is skipped, one sign is taken,
\* then digits are read up to the first character that is no digit; the rest
\* of the string is ignored. NaN when no digit was read.
ParseInt(s) ==
  LET t == TrimStart(s)
      signed == t # <<>> /\ Head(t) \in {"-", "+"}
      neg == t # <<>> /\ Head(t) = "-"
      r == DigitPrefix(IF signed THEN Tail(t) ELSE t, 0, FALSE)
  IN  IF ~r.seen THEN NaN
      ELSE IF neg THEN Number(0 - r.value) ELSE Number(r.value)

\* topic.split("/"): the segments between the separators.
RECURSIVE Split(_)
Split(topic) ==
  IF topic = <<>> THEN << <<>> >>
  ELSE LET rest == Split(Tail(topic))
       IN  IF Head(topic) = "/"
             THEN << <<>> >> \o rest
             ELSE << <<Head(topic)>> \o Head(rest) >> \o Tail(rest)

\* ----------------------------------------------------------------- tables

\* Poller.poll: the blocks in the order they are read, and for each the
\* fields taken from the returned buffer (byte offset, width in bytes) and
\* the factor the integer read there is multiplied by ("1" for none).
Blocks == <<
  [start |-> 30001, count |-> 6, fields |-> <<
     [key |-> "battery_power", off |-> 0, width |-> 2,
      scale |-> "1"],
     [key |-> "ac_power", off |-> 10, width |-> 2,
      scale |-> "1"] >>],
  [start |-> 30100, count |-> 2, fields |-> <<
     [key |-> "battery_voltage", off |-> 0, width |-> 2,
      scale |-> "0.01"],
     [key |-> "battery_current", off |-> 2, width |-> 2,
      scale |-> "0.1"] >>],
  [start |-> 32105, count |-> 1, fields |-> <<
     [key |-> "battery_design_capacity", off |-> 0, width |-> 2,
      scale |-> "0.001"] >>],
  [start |-> 32200, count |-> 5, fields |-> <<
     [key |-> "ac_voltage", off |-> 0, width |-> 2,
      scale |-> "0.1"],
     [key |-> "ac_frequency", off |-> 8, width |-> 2,
      scale |-> "0.1"] >>],
  [start |-> 37004, count |-> 5, fields |-> <<
     [key |-> "ac_current", off |-> 0, width |-> 2,
      scale |-> "0.004"],
     [key |-> "soc", off |-> 2, width |-> 2,
      scale |-> "1"],
     [key |-> "max_cell_voltage", off |-> 6, width |-> 2,
      scale |-> "0.001"],
     [key |-> "min_cell_voltage", off |-> 8, width |-> 2,
      scale |-> "0.001"] >>],
  [start |-> 33000, count |-> 4, fields |-> <<
     [key |-> "total_energy_in", off |-> 0, width |-> 4,
      scale |-> "0.01"],
     [key |-> "total_energy_out", off |-> 4, width |-> 4,
      scale |-> "0.01"] >>],
  [start |-> 35000, count |-> 3, fields |-> <<
     [key |-> "internal_temperature", off |-> 0, width |-> 2,
      scale |-> "0.1"],
     [key |-> "internal_mos1_temperature", off |-> 2, width |-> 2,
      scale |-> "0.1"],
     [key |-> "internal_mos2_temperature", off |-> 4, width |-> 2,
      scale |-> "0.1"] >>],
  [start |-> 35010, count |-> 2, fields |-> <<
     [key |-> "max_cell_temperature", off |-> 0, width |-> 2,
      scale |-> "0.1"],
     [key |-> "min_cell_temperature", off |-> 0, width |-> 2,
      scale |-> "0.1"] >>],
  [start |-> 35100, count |-> 1, fields |-> <<
     [key |-> "inverter_state", off |-> 0, width |-> 2,
      scale |-> "1"] >>],
  [start |-> 41200, count |-> 1, fields |-> <<
     [key |-> "backup_function", off |-> 0, width |-> 2,
      scale |-> "1"] >>],
  [start |-> 42010, count |-> 2, fields |-> <<
     [key |-> "force_mode", off |-> 0, width |-> 2,
      scale |-> "1"],
     [key |-> "charge_to_soc", off |-> 2, width |-> 2,
      scale |-> "1"] >>],
  [start |-> 42020, count |-> 2, fields |-> <<
     [key |-> "set_charge_power", off |-> 0, width |-> 2,
      scale |-> "1"],
     [key |-> "set_discharge_power", off |-> 2, width |-> 2,
      scale |-> "1"] >>],
  [start |-> 43000, count |-> 1, fields |-> <<
     [key |-> "user_work_mode", off |-> 0, width |-> 2,
      scale |-> "1"] >> ] >>

NumBlocks == Len(Blocks)

BlockKeys(b) == {Blocks[b].fields[f].key : f \in 1..Len(Blocks[b].fields)}

AllKeys == UNION {BlockKeys(b) : b \in 1..NumBlocks}

\* Buffer.readInt16BE and its siblings throw a RangeError when the field
\* does not lie inside the buffer.
DecodeThrows(b, len) ==
  \E f \in 1..Len(Blocks[b].fields) :
    Blocks[b].fields[f].off + Blocks[b].fields[f].width > len

\* What readHoldingRegisters can resolve to for a read of count registers: a
\* buffer of count*2 bytes, or a shorter one from a device that answers with
\* fewer registers.
BufferLengths(count) == {2 * n : n \in 0..count}

\* The byte offsets poll reads from the buffer of block b.
Offsets(b) == {Blocks[b].fields[f].off : f \in 1..Len(Blocks[b].fields)}

\* The contents of a returned buffer, as far as poll looks at them: the
\* integer that stands at each offset it reads.
Buffers(b, values) == [Offsets(b) -> values]

\* The entries poll adds to data from the buffer of block b: for each field
\* the integer read at its offset and the factor it is multiplied by.
Decoded(b, buf) ==
  [k \in BlockKeys(b) |->
     LET f == CHOOSE f \in 1..Len(Blocks[b].fields) : Blocks[b].fields[f].key = k
     IN  [raw |-> buf[Blocks[b].fields[f].off],
          scale |-> Blocks[b].fields[f].scale]]

\* data once the entries of new are assigned to it.
Assign(data, new) ==
  [k \in DOMAIN data \cup DOMAIN new |->
     IF k \in DOMAIN new THEN new[k] ELSE data[k]]

\* "const data = {}".
EmptyData == [k \in {} |-> 0]

\* The keys poll assigns up to block b, in the order of their assignment.
RECURSIVE KeysUpTo(_)
KeysUpTo(b) ==
  IF b = 0 THEN <<>>
  ELSE KeysUpTo(b - 1) \o
       [f \in 1..Len(Blocks[b].fields) |-> Blocks[b].fields[f].key]

\* Object.entries(data): the keys in the order they were first assigned.
EntriesOrder(data) ==
  LET IsKey(k) == k \in DOMAIN data
  IN  SelectSeq(KeysUpTo(NumBlocks), IsKey)

\* Poller.CONTROLS. A map lists its entries in the order Object.keys gives
\* them; a code is the property name, a string.
CONTROLS == [
  user_work_mode |-> [register |-> 43000, type |-> "select", map |-> <<
     [code |-> <<"0">>, label |-> <<"M","a","n","u","a","l">>],
     [code |-> <<"1">>, label |-> <<"A","n","t","i","-","F","e","e","d">>],
     [code |-> <<"2">>, label |-> <<"T","r","a","d","e">>] >>],
  force_mode |-> [register |-> 42010, type |-> "select", map |-> <<
     [code |-> <<"0">>, label |-> <<"S","t","o","p">>],
     [code |-> <<"1">>, label |-> <<"C","h","a","r","g","e">>],
     [code |-> <<"2">>, label |-> <<"D","i","s","c","h","a","r","g","e">>] >>],
  backup_function |-> [register |-> 41200, type |-> "select", map |-> <<
     [code |-> <<"0">>, label |-> <<"E","n","a","b","l","e">>],
     [code |-> <<"1">>, label |-> <<"D","i","s","a","b","l","e">>] >>],
  set_charge_power |-> [register |-> 42020, type |-> "number", map |-> <<>>],
  set_discharge_power |-> [register |-> 42021, type |-> "number", map |-> <<>>],
  charge_to_soc |-> [register |-> 42011, type |-> "number", map |-> <<>>] ]

\* Poller.READ_ONLY_LOOKUPS.
READ_ONLY_LOOKUPS == [
  inverter_state |-> [map |-> <<
     [code |-> <<"0">>, label |-> <<"S","l","e","e","p">>],
     [code |-> <<"1">>, label |-> <<"S","t","a","n","d","b","y">>],
     [code |-> <<"2">>, label |-> <<"C","h","a","r","g","e">>],
     [code |-> <<"3">>, label |-> <<"D","i","s","c","h","a","r","g","e">>],
     [code |-> <<"4">>, label |-> <<"B","a","c","k","u","p">>],
     [code |-> <<"5">>, label |-> <<"O","T","A">>],
     [code |-> <<"6">>, label |-> <<"B","y","p","a","s","s">>] >>] ]

\* Names every object inherits from Object.prototype: controls[key] is then
\* some function or object, truthy, with no type, register or map.
InheritedNames == {"constructor", "toString", "__proto__"}

\* controls[key] for a key that is one segment of the topic; truthy says
\* whether the value passes the test of "if (!controls[key])".
ControlOf(key) ==
  IF Len(key) = 1 /\ key[1] \in DOMAIN CONTROLS
    THEN [truthy |-> TRUE, register |-> CONTROLS[key[1]].register,
          type |-> CONTROLS[key[1]].type, map |-> CONTROLS[key[1]].map]
  ELSE IF Len(key) = 1 /\ key[1] \in InheritedNames
    THEN [truthy |-> TRUE, register |-> 0, type |-> "undefined", map |-> <<>>]
  ELSE [truthy |-> FALSE, register |-> 0, type |-> "undefined", map |-> <<>>]

\* -------------------------------------------------- MqttClient.handleCommand

\* A lookup that returns the position of the label in place of its key.
FindCodeByPosition(map, value) ==
  LET hits == {i \in 1..Len(map) : map[i].label = value}
  IN  IF hits = {} THEN [found |-> FALSE, code |-> <<>>]
      ELSE [found |-> TRUE, code |-> <<Digits[(CHOOSE i \in hits : TRUE) + 1]>>]

\* Object.keys(control.map).find(k => control.map[k] === value): the first
\* property name whose label is the value, found false when there is none.
FindCode(map, value) ==
  LET hits == {i \in 1..Len(map) : map[i].label = value}
  IN  IF hits = {} THEN [found |-> FALSE, code |-> <<>>]
      ELSE [found |-> TRUE,
            code |-> map[CHOOSE i \in hits : \A j \in hits : i <= j].code]

\* The calls writeToDevice(register, value) that handleCommand makes for one
\* message, in order.
CommandWrites(topic, value) ==
  LET parts == Split(topic)
  IN  IF Len(parts) # 4 \/ parts[3] # <<"set">> THEN <<>>
      ELSE
        LET control == ControlOf(parts[4])
        IN  IF ~control.truthy THEN <<>>
            ELSE IF control.type = "select" THEN
              LET intVal == FindCode(control.map, value)
              IN  IF intVal.found
                    THEN << [register |-> control.register,
                             value |-> ParseInt(intVal.code).value] >>
                    ELSE <<>>
            ELSE IF control.type = "number" THEN
              LET intVal == ParseInt(value)
              IN  IF intVal.nan THEN <<>>
                  ELSE << [register |-> control.register,
                           value |-> intVal.value] >>
            ELSE <<>>

\* ----------------------------------------------------- MqttClient.handleData

RECURSIVE NatToString(_)
NatToString(n) ==
  IF n < 10 THEN <<Digits[n + 1]>>
  ELSE NatToString(n \div 10) \o <<Digits[(n % 10) + 1]>>

\* String(value) as the template literal and the property access make it:
\* the decimal digits of an integer; of a value that was multiplied by a
\* factor, the digits of the integer followed by the factor.
StringOf(value) ==
  LET int == IF value.raw < 0 THEN <<"-">> \o NatToString(0 - value.raw)
             ELSE NatToString(value.raw)
  IN  IF value.scale = "1" THEN int ELSE int \o <<"*", value.scale>>

\* A lookup that takes the entry after the one of the code.
LookupNext(map, value) ==
  LET hits == {j \in 1..Len(map) : map[j].code = StringOf(value)}
  IN  IF hits = {} THEN [defined |-> FALSE, label |-> <<>>]
      ELSE [defined |-> TRUE,
            label |-> map[((CHOOSE j \in hits : TRUE) % Len(map)) + 1].label]

\* map[value]: the property whose name is String(value); defined says
\* whether "map[value] !== undefined".
Lookup(map, value) ==
  LET hits == {j \in 1..Len(map) : map[j].code = StringOf(value)}
  IN  IF hits = {} THEN [defined |-> FALSE, label |-> <<>>]
      ELSE [defined |-> TRUE, label |-> map[CHOOSE j \in hits : TRUE].label]

\* A translation that publishes nothing readable for a code without label.
PayloadOrNothing(key, value) ==
  IF key \in DOMAIN CONTROLS /\ CONTROLS[key].type = "select" THEN
    Lookup(CONTROLS[key].map, value).label
  ELSE IF key \in DOMAIN READ_ONLY_LOOKUPS THEN
    Lookup(READ_ONLY_LOOKUPS[key].map, value).label
  ELSE StringOf(value)

\* The payload handleData publishes for one entry of data: the label of the
\* value for a select control and for a read-only lookup when the map has
\* one, the value itself otherwise, as a string.
Payload(key, value) ==
  IF key \in DOMAIN CONTROLS /\ CONTROLS[key].type = "select" THEN
    LET label == Lookup(CONTROLS[key].map, value)
    IN  IF label.defined THEN label.label ELSE StringOf(value)
  ELSE IF key \in DOMAIN READ_ONLY_LOOKUPS THEN
    LET label == Lookup(READ_ONLY_LOOKUPS[key].map, value)
    IN  IF label.defined THEN label.label ELSE StringOf(value)
  ELSE StringOf(value)

\* A topic made of these segments.
Topic(segments) ==
  IF segments = <<>> THEN <<>>
  ELSE [j \in 1..(2 * Len(segments) - 1) |->
          IF j % 2 = 1 THEN segments[(j + 1) \div 2] ELSE "/"]

\* `${MqttClient.TOPIC_PREFIX}/${this.identifier}/${key}`.
StateTopic(key) == Topic(<<"marstek2mqtt", "One", key>>)

\* The publish calls of the forEach of handleData, in order.
Telemetry(data) ==
  LET order == EntriesOrder(data)
  IN  [j \in 1..Len(order) |->
         [topic |-> StateTopic(order[j]),
          payload |-> Payload(order[j], data[order[j]]),
          retain |-> FALSE]]

\* The makeConfig calls of ensureAutoconf, in order: key and type.
Configs == <<
  <<"ac_power", "sensor">>, <<"battery_power", "sensor">>,
  <<"battery_voltage", "sensor">>, <<"battery_current", "sensor">>,
  <<"ac_voltage", "sensor">>, <<"ac_current", "sensor">>,
  <<"ac_frequency", "sensor">>, <<"soc", "sensor">>,
  <<"total_energy_in", "sensor">>, <<"total_energy_out", "sensor">>,
  <<"internal_temperature", "sensor">>, <<"inverter_state", "sensor">>,
  <<"set_charge_power", "number">>, <<"set_discharge_power", "number">>,
  <<"charge_to_soc", "number">>, <<"user_work_mode", "select">>,
  <<"force_mode", "select">>, <<"backup_function", "select">>
>>

\* The publish call of makeConfig(key, ..., type): the discovery topic, and
\* for the JSON document the key and type it is made for.
makeConfig(key, type) ==
  [topic |-> Topic(<<"homeassistant", type, "marstek2mqtt_One", key, "config">>),
   payload |-> <<"config", key, type>>,
   retain |-> TRUE]

Discovery == [j \in 1..Len(Configs) |-> makeConfig(Configs[j][1], Configs[j][2])]

\* An ensureAutoconf that republishes from 4 hours on.
ensureAutoconfFromFourHours(ts, t) ==
  IF t - ts < AutoconfInterval
    THEN [timestamp |-> ts, published |-> <<>>]
    ELSE [timestamp |-> t, published |-> Discovery]

\* MqttClient.ensureAutoconf called at time t with autoconfTimestamp ts: the
\* messages it publishes and the timestamp it leaves.
ensureAutoconf(ts, t) ==
  IF t - ts <= AutoconfInterval
    THEN [timestamp |-> ts, published |-> <<>>]
    ELSE [timestamp |-> t, published |-> Discovery]

\* A handleData that calls ensureAutoconf after the forEach.
handleDataTelemetryFirst(ts, t, data) ==
  LET autoconf == ensureAutoconf(ts, t)
  IN  [timestamp |-> autoconf.timestamp,
       published |-> Telemetry(data) \o autoconf.published]

\* MqttClient.handleData(data) called at time t with autoconfTimestamp ts
\* and this.client set: the messages it publishes, in order, and the
\* timestamp it leaves.
handleData(ts, t, data) ==
  LET autoconf == ensureAutoconf(ts, t)
  IN  [timestamp |-> autoconf.timestamp,
       published |-> autoconf.published \o Telemetry(data)]

\* ------------------------------------------------------------------ state

VARIABLES
  connected,          \* Poller.connected
  isOpen,             \* Poller.client.isOpen: the client's session is open
  sessions,           \* transport sessions that are open
  interval,           \* the poll interval initialize read from POLL_INTERVAL
  initpc,             \* Poller.initialize: "new", "connecting", "done"
  inv,                \* the invocations of pollingLoop, by slot
  timers,             \* callbacks armed with setTimeout and not yet run
  listeners,          \* the Data listeners of the eventEmitter, in order
  mqttReady,          \* MqttClient.initialize has set MqttClient.client
  autoconfTimestamp,  \* MqttClient.autoconfTimestamp
  now,                \* Date.now()
  last,               \* the tick that ended last: its outcome and deliveries
  writes,             \* client.writeRegister calls awaiting their response
  lastWrite,          \* how the write that settled last ended
  cmd                 \* the message handleCommand handled last

vars == <<connected, isOpen, sessions, interval, initpc, inv, timers,
          listeners, mqttReady, autoconfTimestamp, now, last, writes,
          lastWrite, cmd>>

pollerVars == <<connected, isOpen, sessions, interval, initpc, inv, timers,
                last>>

bridgeVars == <<listeners, mqttReady, autoconfTimestamp>>

writeVars == <<writes, lastWrite, cmd>>

Slots == 1..MaxInv

IdleInv == [pc |-> "idle", blk |-> 0, data |-> EmptyData,
            didConnect |-> FALSE, truncated |-> FALSE]

Active == {i \in Slots : inv[i].pc # "idle"}

FreeSlot == CHOOSE i \in Slots \ Active : \A j \in Slots \ Active : i <= j

\* No message yet. calls: the Poller.writeRegister calls handleCommand made
\* for the message; sent: the client.writeRegister calls made since it was
\* handled, its own included.
NoCmd == [topic |-> <<>>, payload |-> <<>>, calls |-> <<>>, result |-> "none",
          sent |-> 0]

\* No tick yet. registered: the listeners when emitData ran; delivered: how
\* many of them emit called; threw: the one that threw, 0 for none;
\* snapshot: the keys of the data object handed to them, and data: the
\* object; published: the messages handleData published for it, in order;
\* at: the time the tick ended; delay: the delay of the timer it armed;
\* truncated: a buffer of the cycle that emitted was shorter than the block
\* that was asked for.
NoTick == [outcome |-> "none", registered |-> 0, delivered |-> 0, threw |-> 0,
           snapshot |-> {}, data |-> EmptyData, published |-> <<>>,
           at |-> 0, delay |-> 0, truncated |-> FALSE]

\* "Number(process.env.POLL_INTERVAL) || 5000" with the variable not set: 5000
\* ms, in seconds.
PollInterval == 5000 \div 1000

\* Poller's and MqttClient's constructors have not run onData yet.
Init ==
  /\ connected = FALSE
  /\ isOpen = FALSE
  /\ sessions = 0
  /\ interval = PollInterval
  /\ initpc = "new"
  /\ inv = [i \in Slots |-> IdleInv]
  /\ timers = 0
  /\ listeners = <<>>
  /\ mqttReady = FALSE
  /\ autoconfTimestamp = 0
  /\ now = StartTime
  /\ last = NoTick
  /\ writes = <<>>
  /\ lastWrite = "none"
  /\ cmd = NoCmd

\* ------------------------------------------------------------- the bridge

\* new MqttClient(poller): registers handleData as a Data listener.
NewMqttClient ==
  /\ Len(listeners) < MaxListeners
  /\ \A k \in 1..Len(listeners) : listeners[k] # "bridge"
  /\ listeners' = Append(listeners, "bridge")
  /\ autoconfTimestamp' = 0
  /\ UNCHANGED <<pollerVars, writeVars, mqttReady, now>>

\* Poller.onData(listener) for a listener of some other consumer.
onData ==
  /\ Len(listeners) < MaxListeners
  /\ listeners' = Append(listeners, "other")
  /\ UNCHANGED <<pollerVars, writeVars, mqttReady, autoconfTimestamp, now>>

\* MqttClient.initialize: this.client is set and the message handler is on.
MqttInitialize ==
  /\ \E k \in 1..Len(listeners) : listeners[k] = "bridge"
  /\ ~mqttReady
  /\ mqttReady' = TRUE
  /\ UNCHANGED <<pollerVars, writeVars, listeners, autoconfTimestamp, now>>

\* ------------------------------------------------------------- emitData

\* Listener k throws when it is called: handleData throws on its first
\* publish while this.client is not set and not otherwise; another
\* consumer's listener may throw or not.
MayThrow(k) == listeners[k] = "other" \/ ~mqttReady

MayReturn(k) == listeners[k] = "other" \/ mqttReady

\* The listeners that eventEmitter.emit calls when listener t is the first
\* to throw (t = 0: none throws): emit calls them in registration order and
\* an exception leaves emit at once.
Invoked(n, t) == IF t = 0 THEN n ELSE t

\* The first thrower emit can meet.
Throwers ==
  {t \in 0..Len(listeners) :
     /\ \A k \in 1..Invoked(Len(listeners), t) : k # t => MayReturn(k)
     /\ t # 0 => MayThrow(t)}

\* handleData ran to its end for the bridge listener among the first n.
BridgeHandled(n, t) ==
  \E k \in 1..n : listeners[k] = "bridge" /\ k # t

\* -------------------------------------------------------------- the poller

\* A timer that stays armed when it runs, as one set with setInterval.
TimersOnEntryRearmed(t) == t

\* The armed timers once a timer's callback has started pollingLoop: the
\* timer that ran is gone, and pollingLoop arms the next one only in its
\* last statement.
TimersOnEntry(t) == t - 1

\* A loop that leaves no timer armed when it ends.
TimersOnExitNone(t) == t

\* The armed timers once pollingLoop has run its last statement.
TimersOnExit(t) == t + 1

\* A connect that opens the new session without closing the open one.
SessionsKept(open, n) == n

\* The open sessions once connect has run "if (this.client.isOpen)
\* this.client.close()".
SessionsAfterClose(open, n) == IF open THEN n - 1 ELSE n

\* connect() up to "await this.client.connectTCP".
StartConnect ==
  /\ sessions' = SessionsAfterClose(isOpen, sessions)
  /\ isOpen' = FALSE

\* pollingLoop up to its first await, in slot i: connect() when not
\* connected, else poll() up to the first readBlock.
EnterLoop(i, conn) ==
  IF ~conn
    THEN /\ inv' = [inv EXCEPT ![i] = [pc |-> "connecting", blk |-> 0,
                                       data |-> EmptyData,
                                       didConnect |-> TRUE,
                                       truncated |-> FALSE]]
         /\ StartConnect
    ELSE /\ inv' = [inv EXCEPT ![i] = [pc |-> "reading", blk |-> 1,
                                       data |-> EmptyData,
                                       didConnect |-> FALSE,
                                       truncated |-> FALSE]]
         /\ UNCHANGED <<isOpen, sessions>>

\* The remainder operator of JavaScript: the sign is that of the dividend.
Rem(a, b) == IF a >= 0 THEN a % b ELSE 0 - ((0 - a) % b)

\* A delay that is the time passed since the last boundary.
DelaySinceBoundary(t, ival) == Rem(t, ival)

\* "interval - (Date.now() % interval)" at time t.
Delay(t, ival) == ival - Rem(t, ival)

\* pollingLoop from the end of its try statement: the next tick is armed.
EndTick(i, outcome, registered, delivered, threw, data, published, short) ==
  /\ inv' = [inv EXCEPT ![i] = IdleInv]
  /\ timers' = TimersOnExit(timers)
  /\ last' = [outcome |-> outcome, registered |-> registered,
              delivered |-> delivered, threw |-> threw,
              snapshot |-> DOMAIN data, data |-> data,
              published |-> published, at |-> now,
              delay |-> Delay(now, interval), truncated |-> short]

\* A catch that logs the error and leaves the flag as it is.
ConnectedKept(conn) == conn

\* this.connected once the catch of pollingLoop has run.
ConnectedAfterPollError(conn) == FALSE

\* Poller.initialize up to "await connect()".
Initialize ==
  /\ initpc = "new"
  /\ initpc' = "connecting"
  /\ StartConnect
  /\ UNCHANGED <<connected, interval, inv, timers, last, bridgeVars,
                 writeVars, now>>

\* The first connect() settles, and initialize calls pollingLoop.
InitConnectDone ==
  /\ initpc = "connecting"
  /\ initpc' = "done"
  /\ \E ok \in BOOLEAN :
       /\ connected' = ok
       /\ IF ok
            THEN /\ inv' = [inv EXCEPT ![FreeSlot] =
                              [pc |-> "reading", blk |-> 1,
                               data |-> EmptyData, didConnect |-> FALSE,
                               truncated |-> FALSE]]
                 /\ isOpen' = TRUE
                 /\ sessions' = sessions + 1
            ELSE EnterLoop(FreeSlot, FALSE)
  /\ UNCHANGED <<interval, timers, last, bridgeVars, writeVars, now>>

\* A timer armed by pollingLoop runs its callback.
TimerFire ==
  /\ timers > 0
  /\ Slots \ Active # {}
  /\ timers' = TimersOnEntry(timers)
  /\ EnterLoop(FreeSlot, connected)
  /\ UNCHANGED <<connected, interval, initpc, last, bridgeVars, writeVars,
                 now>>

\* connectTCP settles for the connect() that pollingLoop awaits.
ConnectDone(i) ==
  /\ inv[i].pc = "connecting"
  /\ \/ /\ connected' = TRUE
        /\ isOpen' = TRUE
        /\ sessions' = sessions + 1
        /\ inv' = [inv EXCEPT ![i].pc = "reading", ![i].blk = 1]
        /\ UNCHANGED <<timers, last>>
     \/ /\ connected' = FALSE
        /\ isOpen' = FALSE
        /\ UNCHANGED sessions
        /\ EndTick(i, "connect_failed", 0, 0, 0, EmptyData, <<>>, FALSE)
  /\ UNCHANGED <<interval, initpc, bridgeVars, writeVars, now>>

\* A poll that emits after the first block.
PollCompleteEarly(b) == b >= 1

\* The snapshot is complete when the block just decoded is the last one.
PollComplete(b) == b = NumBlocks

\* readHoldingRegisters rejects: poll() throws out of readBlock.
ReadFail(i) ==
  /\ inv[i].pc = "reading"
  /\ connected' = ConnectedAfterPollError(connected)
  /\ EndTick(i, "io_error", 0, 0, 0, EmptyData, <<>>, FALSE)
  /\ UNCHANGED <<isOpen, sessions, interval, initpc, bridgeVars, writeVars,
                 now>>

\* The block poll reads after block b.
NextBlockSkipping(b) == IF b + 2 <= NumBlocks THEN b + 2 ELSE b + 1

NextBlock(b) == b + 1

\* readHoldingRegisters resolves with a buffer of len bytes that holds buf:
\* poll() decodes the block and goes on to the next readBlock, or to
\* emitData, where each listener that emit reaches runs to its end.
ReadDone(i, len, buf) ==
  /\ inv[i].pc = "reading"
  /\ LET b == inv[i].blk
         data == Assign(inv[i].data, Decoded(b, buf))
         truncated == inv[i].truncated \/ len < 2 * Blocks[b].count
     IN  IF DecodeThrows(b, len) THEN
           /\ connected' = ConnectedAfterPollError(connected)
           /\ EndTick(i, "decode_error", 0, 0, 0, EmptyData, <<>>, FALSE)
           /\ UNCHANGED autoconfTimestamp
         ELSE IF ~PollComplete(b) THEN
           /\ inv' = [inv EXCEPT ![i].blk = NextBlock(b), ![i].data = data,
                                 ![i].truncated = truncated]
           /\ UNCHANGED <<connected, timers, last, autoconfTimestamp>>
         ELSE
           \E t \in Throwers :
             LET n == Invoked(Len(listeners), t)
                 handled == handleData(autoconfTimestamp, now, data)
                 published == IF BridgeHandled(n, t) THEN handled.published
                              ELSE <<>>
             IN  /\ autoconfTimestamp' =
                      IF BridgeHandled(n, t) THEN handled.timestamp
                      ELSE autoconfTimestamp
                 /\ IF t = 0
                      THEN /\ EndTick(i, "emitted", Len(listeners), n, 0,
                                      data, published, truncated)
                           /\ UNCHANGED connected
                      ELSE /\ EndTick(i, "listener_error", Len(listeners),
                                      n, t, data, published, truncated)
                           /\ connected' =
                                ConnectedAfterPollError(connected)
  /\ UNCHANGED <<isOpen, sessions, interval, initpc, listeners, mqttReady,
                 writeVars, now>>

\* ------------------------------------------------------------ the commands

\* A writeRegister without the check of this.connected.
WriteAllowedAlways(conn) == TRUE

\* Poller.writeRegister goes on to the transport: "if (!this.connected)
\* throw".
WriteAllowed(conn) == conn

\* What becomes of the write calls of writes when the call at k settles:
\* writeToDevice logs the outcome, whichever it is, and does nothing else.
AfterSettle(ws, k, ok) ==
  [j \in 1..(Len(ws) - 1) |-> IF j < k THEN ws[j] ELSE ws[j + 1]]

\* The client's message handler: handleCommand(topic, message), with the
\* writeToDevice call it makes run up to the await in Poller.writeRegister.
handleCommand(topic, payload) ==
  /\ mqttReady
  /\ LET calls == CommandWrites(topic, payload)
     IN  IF calls = <<>> THEN
           /\ cmd' = [topic |-> topic, payload |-> payload, calls |-> calls,
                      result |-> "ignored", sent |-> 0]
           /\ UNCHANGED writes
         ELSE IF ~WriteAllowed(connected) THEN
           /\ cmd' = [topic |-> topic, payload |-> payload, calls |-> calls,
                      result |-> "not_connected", sent |-> 0]
           /\ UNCHANGED writes
         ELSE
           /\ Len(writes) < MaxInFlight
           /\ cmd' = [topic |-> topic, payload |-> payload, calls |-> calls,
                      result |-> "started", sent |-> Len(calls)]
           /\ writes' = writes \o calls
  /\ UNCHANGED <<pollerVars, bridgeVars, lastWrite, now>>

\* client.writeRegister settles for the call at position k.
WriteDone(k) ==
  /\ k \in 1..Len(writes)
  /\ \E ok \in BOOLEAN :
       /\ writes' = AfterSettle(writes, k, ok)
       /\ cmd' = [cmd EXCEPT
                    !.sent = @ + Len(AfterSettle(writes, k, ok)) + 1
                               - Len(writes)]
       /\ lastWrite' = IF ok THEN "ok" ELSE "failed"
  /\ UNCHANGED <<pollerVars, bridgeVars, now>>

\* ------------------------------------------------------------------ inputs

\* What the registers of the running system hold: every one the same.
SysValues == {1}

\* The snapshot of a cycle that read them.
RECURSIVE DataUpTo(_, _)
DataUpTo(b, values) ==
  IF b = 0 THEN EmptyData
  ELSE Assign(DataUpTo(b - 1, values),
              Decoded(b, CHOOSE buf \in Buffers(b, values) : TRUE))

SysData == DataUpTo(NumBlocks, SysValues)

Instants ==
  {StartTime + a + b * AutoconfInterval : a \in 0..MaxClock, b \in 0..MaxClock}

\* Time passes.
AdvanceTime ==
  /\ \E t \in Instants : t > now /\ now' = t
  /\ UNCHANGED <<pollerVars, bridgeVars, writeVars>>

SetTopic(key) == Topic(<<"marstek2mqtt", "One", "set", key>>)

Charge == <<"C","h","a","r","g","e">>

\* The messages of the running system.
SysCommands == {
  [topic |-> SetTopic("force_mode"), payload |-> Charge],
  [topic |-> SetTopic("force_mode"), payload |-> <<"c","h","a","r","g","e">>],
  [topic |-> SetTopic("set_charge_power"), payload |-> <<"1","2","a">>],
  [topic |-> SetTopic("inverter_state"), payload |-> <<"S","t","a","n","d","b","y">>] }

SelectKeys == {k \in DOMAIN CONTROLS : CONTROLS[k].type = "select"}

NumberKeys == {k \in DOMAIN CONTROLS : CONTROLS[k].type = "number"}

Labels(map) == {map[j].label : j \in 1..Len(map)}

\* Topics of every shape: each control, a read-only key, an inherited name,
\* an unknown key, and topics that are no set topic.
AllTopics ==
  {SetTopic(k) : k \in DOMAIN CONTROLS \cup {"inverter_state", "constructor", "bogus"}}
  \cup {Topic(<<"marstek2mqtt", "One", "force_mode">>),
        Topic(<<"marstek2mqtt", "One", "get", "force_mode">>),
        Topic(<<"marstek2mqtt", "One", "set", "force_mode", "x">>)}

\* Every label of a control, and payloads that are no label: another case,
\* a read-only label, numbers, a number followed by a letter, no number.
AllPayloads ==
  UNION {Labels(CONTROLS[k].map) : k \in SelectKeys}
  \cup {<<"c","h","a","r","g","e">>, <<"S","t","a","n","d","b","y">>, <<"1">>,
        <<"5","0">>, <<"-","5">>, <<"1","2","a">>, <<"a","b","c">>, <<>>}

AllCommands == [topic : AllTopics, payload : AllPayloads]

\* The first tick has emitted SysData to the bridge and to no one else.
FirstTick ==
  [outcome |-> "emitted", registered |-> 1, delivered |-> 1, threw |-> 0,
   snapshot |-> AllKeys, data |-> SysData,
   published |-> handleData(0, StartTime, SysData).published,
   at |-> StartTime, delay |-> Delay(StartTime, PollInterval),
   truncated |-> FALSE]

\* A state between two ticks, with the bridge running: after a tick that
\* emitted, or after one whose connect failed.
InitCmd ==
  /\ connected \in BOOLEAN
  /\ isOpen = connected
  /\ sessions = IF connected THEN 1 ELSE 0
  /\ interval = PollInterval
  /\ initpc = "done"
  /\ inv = [i \in Slots |-> IdleInv]
  /\ timers = 1
  /\ listeners = <<"bridge">>
  /\ mqttReady = TRUE
  /\ autoconfTimestamp = IF connected THEN StartTime ELSE 0
  /\ now = StartTime
  /\ last = IF connected
              THEN FirstTick
              ELSE [outcome |-> "connect_failed", registered |-> 0,
                    delivered |-> 0, threw |-> 0, snapshot |-> {},
                    data |-> EmptyData, published |-> <<>>,
                    at |-> StartTime,
                    delay |-> Delay(StartTime, PollInterval),
                    truncated |-> FALSE]
  /\ writes = <<>>
  /\ lastWrite = "none"
  /\ cmd = NoCmd

NextCmd ==
  \/ cmd = NoCmd /\ \E c \in AllCommands : handleCommand(c.topic, c.payload)
  \/ \E k \in 1..MaxInFlight : WriteDone(k)

\* One message of any topic and payload, handled between two ticks, and its
\* write settling.
CmdSpec == InitCmd /\ [][NextCmd]_vars

\* The lengths of the buffers the read that slot i awaits can resolve to.
ReadLengths(i) ==
  IF inv[i].pc = "reading" THEN BufferLengths(Blocks[inv[i].blk].count) ELSE {}

\* The lengths in the running system: the device answers with every
\* register that was asked for, or with none.
SysLengths(i) ==
  IF inv[i].pc = "reading" THEN {0, 2 * Blocks[inv[i].blk].count} ELSE {}

\* Their contents, with the integers of values in the registers.
ReadBuffers(i, values) ==
  IF inv[i].pc = "reading" THEN Buffers(inv[i].blk, values) ELSE {}

\* The keys handleData translates.
Enumerated == SelectKeys \cup DOMAIN READ_ONLY_LOOKUPS

\* The first block with such a key.
FirstCodeBlock ==
  CHOOSE b \in 1..NumBlocks :
    /\ BlockKeys(b) \cap Enumerated # {}
    /\ \A c \in 1..(b - 1) : BlockKeys(c) \cap Enumerated = {}

\* What the registers of the enumerated keys can hold: a code every map has,
\* a code only the longest map has, and a code no map has.
CodeValues == {1, 3, 7}

\* A poll cycle has read the blocks before FirstCodeBlock, with the bridge
\* running as the only listener: the first cycle, or one after FirstTick.
InitData ==
  /\ connected = TRUE
  /\ isOpen = TRUE
  /\ sessions = 1
  /\ interval = PollInterval
  /\ initpc = "done"
  /\ inv = [i \in Slots |->
              IF i = 1
                THEN [pc |-> "reading", blk |-> FirstCodeBlock,
                      data |-> DataUpTo(FirstCodeBlock - 1, SysValues),
                      didConnect |-> FALSE,
                      truncated |-> FALSE]
                ELSE IdleInv]
  /\ timers = 0
  /\ listeners = <<"bridge">>
  /\ mqttReady = TRUE
  /\ autoconfTimestamp \in {0, StartTime}
  /\ now = StartTime
  /\ last = IF autoconfTimestamp = 0 THEN NoTick ELSE FirstTick
  /\ writes = <<>>
  /\ lastWrite = "none"
  /\ cmd = NoCmd

NextData ==
  \E i \in Slots : \E len \in SysLengths(i) :
    \E buf \in ReadBuffers(i, CodeValues) : ReadDone(i, len, buf)

\* The rest of one poll cycle, with any of CodeValues in the registers, and
\* the bridge handling its snapshot.
DataSpec == InitData /\ [][NextData]_vars

\* pollingLoop awaits connect() at any time of the clock, with any interval
\* set in POLL_INTERVAL: initialize's own connect has failed.
InitDelay ==
  /\ connected = FALSE
  /\ isOpen = FALSE
  /\ sessions = 0
  /\ interval \in 1..MaxInterval
  /\ initpc = "done"
  /\ inv = [i \in Slots |->
              IF i = 1
                THEN [pc |-> "connecting", blk |-> 0, data |-> EmptyData,
                      didConnect |-> TRUE,
                      truncated |-> FALSE]
                ELSE IdleInv]
  /\ timers = 0
  /\ listeners = <<>>
  /\ mqttReady = FALSE
  /\ autoconfTimestamp = 0
  /\ now \in {StartTime + e : e \in 0..MaxElapsed}
  /\ last = NoTick
  /\ writes = <<>>
  /\ lastWrite = "none"
  /\ cmd = NoCmd

NextDelay ==
  \/ \E i \in Slots : ConnectDone(i)
  \/ \E i \in Slots : ReadFail(i)

\* One tick that ends on a failed connect or on a failed first read, and
\* arms the next.
DelaySpec == InitDelay /\ [][NextDelay]_vars

\* A buffer with one register in every byte.
RegisterPerByte(start, off) == start + off

\* The register whose contents stand at byte offset off of the buffer of a
\* read that starts at register start: a register takes 2 bytes.
Register(start, off) == start + (off \div 2)

\* What a register can hold: 16 bits, unsigned.
RegisterValues == 0..(2^16 - 1)

\* The contents of a register of a device that stores what is written to it:
\* the value of the write of the command once it has succeeded, and what the
\* running system holds otherwise.
DeviceHolds(register) ==
  IF lastWrite = "ok" /\ cmd.calls # <<>> /\ cmd.calls[1].register = register
    THEN cmd.calls[1].value
    ELSE CHOOSE v \in SysValues : TRUE

\* The buffer such a device returns for the read that slot i awaits.
DeviceBuffers(i) ==
  IF inv[i].pc = "reading"
    THEN {[off \in Offsets(inv[i].blk) |->
             DeviceHolds(Register(Blocks[inv[i].blk].start, off))]}
    ELSE {}

\* The messages that write nothing or a value a register can hold.
StorableCommands ==
  {c \in AllCommands :
     \A j \in 1..Len(CommandWrites(c.topic, c.payload)) :
       CommandWrites(c.topic, c.payload)[j].value \in RegisterValues}

\* Between two ticks, one second after FirstTick, connected and with the
\* bridge running.
InitRoundTrip ==
  /\ connected = TRUE
  /\ isOpen = TRUE
  /\ sessions = 1
  /\ interval = PollInterval
  /\ initpc = "done"
  /\ inv = [i \in Slots |-> IdleInv]
  /\ timers = 1
  /\ listeners = <<"bridge">>
  /\ mqttReady = TRUE
  /\ autoconfTimestamp = StartTime
  /\ now = StartTime + 1
  /\ last = FirstTick
  /\ writes = <<>>
  /\ lastWrite = "none"
  /\ cmd = NoCmd

NextRoundTrip ==
  \/ cmd = NoCmd /\ \E c \in StorableCommands : handleCommand(c.topic, c.payload)
  \/ \E k \in 1..MaxInFlight : WriteDone(k)
  \/ cmd # NoCmd /\ writes = <<>> /\ TimerFire
  \/ \E i \in Slots : \E len \in SysLengths(i) :
       \E buf \in DeviceBuffers(i) : ReadDone(i, len, buf)

\* One message, its write settling, and then poll cycles of a device that
\* stores written values.
RoundTripSpec == InitRoundTrip /\ [][NextRoundTrip]_vars

NextDecode ==
  \/ Initialize
  \/ InitConnectDone
  \/ TimerFire
  \/ \E i \in Slots : ConnectDone(i)
  \/ \E i \in Slots : ReadFail(i)
  \/ \E i \in Slots : \E len \in ReadLengths(i) :
       \E buf \in ReadBuffers(i, SysValues) : ReadDone(i, len, buf)

\* The poller alone, with a device that answers a read with any number of
\* registers up to the number asked for.
DecodeSpec == Init /\ [][NextDecode]_vars

\* ------------------------------------------------------------ specification

Next ==
  \/ NewMqttClient
  \/ onData
  \/ MqttInitialize
  \/ Initialize
  \/ InitConnectDone
  \/ TimerFire
  \/ \E i \in Slots : ConnectDone(i)
  \/ \E i \in Slots : ReadFail(i)
  \/ \E i \in Slots : \E len \in SysLengths(i) :
       \E buf \in ReadBuffers(i, SysValues) : ReadDone(i, len, buf)
  \/ \E c \in SysCommands : handleCommand(c.topic, c.payload)
  \/ \E k \in 1..MaxInFlight : WriteDone(k)

\* The poller, the bridge and the commands, all within one reading of the
\* clock: no handler but ensureAutoconf reads it.
Spec == Init /\ [][Next]_vars

NextClock ==
  \/ NewMqttClient
  \/ onData
  \/ MqttInitialize
  \/ Initialize
  \/ InitConnectDone
  \/ TimerFire
  \/ \E i \in Slots : ConnectDone(i)
  \/ \E i \in Slots : ReadFail(i)
  \/ \E i \in Slots : \E len \in SysLengths(i) :
       \E buf \in ReadBuffers(i, SysValues) : ReadDone(i, len, buf)
  \/ AdvanceTime

\* The poller and the bridge with time passing between the handlers, and no
\* commands: handleCommand and writeToDevice neither read the clock nor
\* publish.
SpecClock == Init /\ [][NextClock]_vars

\* ============================================================== properties

Reading == {i \in Slots : inv[i].pc = "reading"}

CycleFailed == last.outcome \in {"io_error", "decode_error"}

\* C1: poll cycles never overlap. At most one invocation of pollingLoop is
\* alive; while one is alive (or the first connect of initialize is awaited)
\* no timer is armed, so the next tick and its connect attempt start only
\* after the tick before has ended; and at most one timer is ever armed.
NoOverlap ==
  /\ Cardinality(Active) + timers <= 1
  /\ initpc # "done" => Active = {} /\ timers = 0

\* A later tick in the middle of its cycle, after a tick that emitted.
NoOverlapWitness ==
  /\ last.outcome = "emitted"
  /\ \E i \in Slots : inv[i].pc = "reading" /\ inv[i].blk > 1

\* A transport read is started by this step.
ReadStarted ==
  \E i \in Slots :
    /\ inv'[i].pc = "reading"
    /\ inv[i].pc # "reading" \/ inv'[i].blk # inv[i].blk

\* A transport write is started by this step.
WriteStarted == cmd'.sent > cmd.sent \/ Len(writes') > Len(writes)

\* A message was handled by this step and writeRegister rejected its write.
WriteRejected == cmd' # cmd /\ cmd'.result = "not_connected"

\* C2: no transport read or write call is started while this.connected is
\* false: a step that starts one leaves connected true (a read that follows
\* a connect is started once connect has set it), a read is awaited only
\* while connected, and a write rejected as not connected changes nothing.
NoIoWhileDisconnected ==
  /\ [](\A i \in Slots : inv[i].pc = "reading" => connected)
  /\ [][ReadStarted => connected']_vars
  /\ [][WriteStarted => connected /\ connected']_vars
  /\ [][WriteRejected =>
          /\ ~connected
          /\ UNCHANGED <<pollerVars, bridgeVars, writes, lastWrite, now>>]_vars

\* A write was rejected while disconnected, with a session still open.
NoIoWhileDisconnectedWitness ==
  /\ cmd.result = "not_connected"
  /\ ~connected
  /\ isOpen
  /\ writes = <<>>

\* C3: a snapshot is all-or-nothing. What the listeners of a tick were given
\* holds every key of the poll cycle, and a tick that ended with a read or
\* decode error (or a failed connect) called no listener.
AllOrNothing ==
  /\ last.delivered > 0 => last.snapshot = AllKeys
  /\ last.outcome \in {"io_error", "decode_error", "connect_failed"} =>
       last.delivered = 0 /\ last.snapshot = {}

\* A cycle failed on a decode error with listeners registered, of which the
\* bridge had taken an earlier snapshot.
AllOrNothingWitness ==
  /\ last.outcome = "decode_error"
  /\ Len(listeners) = MaxListeners
  /\ autoconfTimestamp = now
  /\ last.delivered = 0

\* C4: after a poll cycle that failed with an I/O or decode error the flag is
\* false when the tick ends, and it stays so until the next tick, which
\* awaits connect before its first read.
FailedCycleReconnects ==
  /\ CycleFailed /\ Active = {} => ~connected
  /\ \A i \in Reading : CycleFailed => inv[i].didConnect

\* The tick after a decode error has connected and is reading.
FailedCycleReconnectsWitness ==
  /\ last.outcome = "decode_error"
  /\ \E i \in Reading : inv[i].didConnect /\ connected

\* A tick ends in this step.
TickEnded == timers' > timers

\* A connect attempt or a block read (its decoding included) fails in this
\* step.
FailureStep ==
  \/ TickEnded /\ last'.outcome \in {"connect_failed", "io_error", "decode_error"}
  \/ initpc = "connecting" /\ initpc' = "done" /\ ~connected'

\* A transport call that is awaited settles.
ReadSettles ==
  \E i \in Slots :
    \/ ReadFail(i)
    \/ \E len \in SysLengths(i) :
         \E buf \in ReadBuffers(i, SysValues) : ReadDone(i, len, buf)

ConnectSettles == \E i \in Slots : ConnectDone(i)

\* The entry point calls initialize, armed timers run, and connectTCP and
\* readHoldingRegisters settle (each has a timeout).
FairSpec ==
  /\ Init /\ [][Next]_vars
  /\ WF_vars(Initialize)
  /\ WF_vars(InitConnectDone)
  /\ WF_vars(TimerFire)
  /\ WF_vars(ConnectSettles)
  /\ WF_vars(ReadSettles)

\* emitData was reached by the tick that ended last.
SnapshotEmitted == last.outcome \in {"emitted", "listener_error"}

\* C5: the polling loop has no terminal state. Once initialize has called
\* pollingLoop, an invocation is alive or a timer is armed for the next one,
\* whatever the outcome of the tick before; and if from some point on no
\* connect attempt and no block read fails, the flag is true again and again
\* and ticks reach emitData again and again.
NoTerminalState ==
  /\ [](initpc = "done" => Cardinality(Active) + timers >= 1)
  /\ <>[][~FailureStep]_vars => []<>connected /\ []<>SnapshotEmitted

\* A tick ended on a failed connect and the next one is armed.
NoTerminalStateWitness ==
  /\ last.outcome = "connect_failed"
  /\ Active = {}
  /\ timers = 1

\* C6: a listener that throws does not keep the listeners registered after it
\* from being called with the snapshot, and does not disturb the poll loop:
\* every listener registered when emitData ran was called, and the tick of a
\* throwing listener leaves the flag true.
ListenerFailureIsolated ==
  /\ SnapshotEmitted => last.delivered = last.registered
  /\ last.outcome = "listener_error" /\ Active = {} => connected

\* C7: reads and writes on the session are mutually exclusive: no command
\* write awaits its response while a block read of a poll cycle awaits its
\* own.
ReadWriteExclusive == ~(Reading # {} /\ writes # <<>>)

\* C8: a command carrying a label of an Enumerated control makes exactly one
\* call Poller.writeRegister(control.register, code) with the code of that
\* label (force_mode "Charge" gives (42010, 1)); the transport write is made
\* at most once and not made again when it has failed.
SelectCommandWrites ==
  /\ \A k \in SelectKeys : \A j \in 1..Len(CONTROLS[k].map) :
       cmd.topic = SetTopic(k) /\ cmd.payload = CONTROLS[k].map[j].label =>
         cmd.calls = << [register |-> CONTROLS[k].register,
                         value |-> DigitVal(CONTROLS[k].map[j].code[1])] >>
  /\ cmd.topic = SetTopic("force_mode") /\ cmd.payload = Charge =>
       cmd.calls = << [register |-> 42010, value |-> 1] >>
  /\ cmd.sent <= Len(cmd.calls)
  /\ cmd.result = "started" => cmd.sent = 1

\* force_mode "Charge" was written as (42010, 1), the write failed, and no
\* other write was made.
SelectCommandWritesWitness ==
  /\ cmd.topic = SetTopic("force_mode")
  /\ cmd.payload = Charge
  /\ cmd.calls = << [register |-> 42010, value |-> 1] >>
  /\ cmd.result = "started"
  /\ lastWrite = "failed"
  /\ writes = <<>>
  /\ cmd.sent = 1

\* A payload that is a base-10 integer: digits, after a minus sign or not.
IsBase10Integer(s) ==
  LET d == IF s # <<>> /\ Head(s) = "-" THEN Tail(s) ELSE s
  IN  d # <<>> /\ \A j \in 1..Len(d) : IsDigit(d[j])

RECURSIVE DecimalOf(_)
DecimalOf(d) ==
  IF d = <<>> THEN 0
  ELSE DecimalOf(SubSeq(d, 1, Len(d) - 1)) * 10 + DigitVal(d[Len(d)])

IntegerOf(s) ==
  IF Head(s) = "-" THEN 0 - DecimalOf(Tail(s)) ELSE DecimalOf(s)

\* A command the bridge is to act on: a topic of exactly 4 segments, the 3rd
\* "set", the 4th a key of CONTROLS, and a value valid for the kind of the
\* key.
ValidCommand(topic, payload) ==
  LET parts == Split(topic)
  IN  /\ Len(parts) = 4
      /\ parts[3] = <<"set">>
      /\ Len(parts[4]) = 1
      /\ parts[4][1] \in DOMAIN CONTROLS
      /\ IF parts[4][1] \in SelectKeys
           THEN payload \in Labels(CONTROLS[parts[4][1]].map)
           ELSE IsBase10Integer(payload)

\* C9: a command causes a register write only if its topic has 4 segments
\* with the 3rd "set", its key is in CONTROLS and its value is valid for the
\* kind of the key; any other command makes no write call and leaves the
\* flag, the autoconf timestamp and the poll loop as they are.
OnlyValidCommandsWrite ==
  /\ [](cmd.calls # <<>> => ValidCommand(cmd.topic, cmd.payload))
  /\ [][cmd' # cmd /\ ~ValidCommand(cmd'.topic, cmd'.payload) =>
          /\ cmd'.calls = <<>>
          /\ UNCHANGED <<pollerVars, bridgeVars, writes, lastWrite, now>>]_vars

\* C10: for a Numeric control, a payload that is a base-10 integer n makes
\* exactly one call Poller.writeRegister(control.register, n), and a payload
\* that is none makes no call.
NumericCommandWrites ==
  \A k \in NumberKeys :
    cmd.topic = SetTopic(k) =>
      IF IsBase10Integer(cmd.payload)
        THEN cmd.calls = << [register |-> CONTROLS[k].register,
                             value |-> IntegerOf(cmd.payload)] >>
        ELSE cmd.calls = <<>>

\* The value poll puts into data for an integer read with no factor.
Code(n) == [raw |-> n, scale |-> "1"]

\* C11: the bijection law. For every select control and every code of its
\* map, the label handleData publishes for the code is one no other code of
\* the map has, and a command that carries this label writes the code, as an
\* integer, to the register of the control.
LabelRoundTrip ==
  \A k \in SelectKeys : \A j \in 1..Len(CONTROLS[k].map) :
    LET code == DigitVal(CONTROLS[k].map[j].code[1])
        label == Payload(k, Code(code))
    IN  /\ \A i \in 1..Len(CONTROLS[k].map) :
             Payload(k, Code(DigitVal(CONTROLS[k].map[i].code[1]))) = label
               => i = j
        /\ cmd.topic = SetTopic(k) /\ cmd.payload = label =>
             cmd.calls = << [register |-> CONTROLS[k].register,
                             value |-> code] >>

\* The label published for code 2 of user_work_mode came back in a command
\* and was written as 2.
LabelRoundTripWitness ==
  /\ cmd.topic = SetTopic("user_work_mode")
  /\ cmd.payload = Payload("user_work_mode", Code(2))
  /\ cmd.calls = << [register |-> 43000, value |-> 2] >>
  /\ cmd.result = "started"

\* The messages of published that go to the topic.
PublishedTo(published, topic) ==
  {j \in 1..Len(published) : published[j].topic = topic}

\* The map of an enumerated key.
MapOf(k) ==
  IF k \in SelectKeys THEN CONTROLS[k].map ELSE READ_ONLY_LOOKUPS[k].map

\* The entries of the map of k for the integer n.
EntriesFor(k, n) ==
  {j \in 1..Len(MapOf(k)) : ParseInt(MapOf(k)[j].code) = Number(n)}

\* C12: for the snapshot the bridge was given, every key is published exactly
\* once to its own topic and nothing else is published as telemetry: the
\* label of the code for a select control or read-only lookup whose map has
\* the code, the number itself for one whose map does not have it (the other
\* keys are published all the same), and the number for every other key.
EachKeyPublishedOnce ==
  last.outcome = "emitted" =>
    /\ Cardinality({j \in 1..Len(last.published) : ~last.published[j].retain})
         = Cardinality(DOMAIN last.data)
    /\ \A k \in DOMAIN last.data :
         LET to == PublishedTo(last.published, StateTopic(k))
             payload == last.published[CHOOSE j \in to : TRUE].payload
             value == last.data[k]
         IN  /\ Cardinality(to) = 1
             /\ IF k \in Enumerated /\ EntriesFor(k, value.raw) # {}
                   THEN \E j \in EntriesFor(k, value.raw) :
                          payload = MapOf(k)[j].label
                 ELSE IF k \in Enumerated
                   THEN ParseInt(payload) = Number(value.raw)
                        /\ IsBase10Integer(payload)
                 ELSE payload = StringOf(value)

\* A snapshot was published in which force_mode holds a code without
\* label, inverter_state a code with one, and user_work_mode, the last key,
\* a code with one.
EachKeyPublishedOnceWitness ==
  /\ last.outcome = "emitted"
  /\ last.snapshot = AllKeys
  /\ last.data["force_mode"] = Code(7)
  /\ last.data["inverter_state"] = Code(3)
  /\ last.data["user_work_mode"] = Code(1)
  /\ Len(last.published) >= Cardinality(AllKeys)

\* The discovery messages among published, and the telemetry messages.
DiscoveryIn(published) ==
  {j \in 1..Len(published) : published[j].retain}

TelemetryIn(published) ==
  {j \in 1..Len(published) : ~published[j].retain}

\* handleData ran to its end in this step.
SnapshotHandled == TickEnded /\ last'.published # <<>>

\* Discovery messages were published in this step.
DiscoveryPublished == TickEnded /\ DiscoveryIn(last'.published) # {}

\* C13: discovery is republished on a snapshot only when more than 4 hours
\* have passed since autoconfTimestamp. A step that publishes discovery
\* messages finds the timestamp more than 4 hours old and sets it to the
\* time of the step, so two publications in a row are more than 4 hours
\* apart; a snapshot handled within 4 hours of the timestamp publishes none;
\* and the timestamp changes in no other step.
DiscoveryEveryFourHours ==
  /\ [][DiscoveryPublished =>
          /\ now - autoconfTimestamp > 4 * 60 * 60
          /\ autoconfTimestamp' = now]_vars
  /\ [][SnapshotHandled /\ now - autoconfTimestamp <= 4 * 60 * 60 =>
          /\ ~DiscoveryPublished
          /\ autoconfTimestamp' = autoconfTimestamp]_vars
  /\ [][autoconfTimestamp' # autoconfTimestamp => DiscoveryPublished]_vars

\* A snapshot was handled exactly 4 hours after the discovery messages were
\* published, and they were not published again.
DiscoveryEveryFourHoursWitness ==
  /\ autoconfTimestamp = StartTime
  /\ last.at = StartTime + AutoconfInterval
  /\ TelemetryIn(last.published) # {}
  /\ DiscoveryIn(last.published) = {}

\* C14: discovery precedes telemetry. When a snapshot is handled and the
\* timestamp is more than 4 hours old, every discovery message is published,
\* and all of them before the first telemetry message of the snapshot; and
\* telemetry is published only once the discovery messages have been
\* published at some time.
DiscoveryBeforeTelemetry ==
  /\ [][SnapshotHandled /\ now - autoconfTimestamp > 4 * 60 * 60 =>
          /\ Len(last'.published) >= Len(Configs)
          /\ \A j \in 1..Len(Configs) :
               last'.published[j] = makeConfig(Configs[j][1], Configs[j][2])]_vars
  /\ [](\A i \in DiscoveryIn(last.published) :
          \A j \in TelemetryIn(last.published) : i < j)
  /\ [](TelemetryIn(last.published) # {} =>
          autoconfTimestamp # 0 /\ autoconfTimestamp <= last.at)

\* More than 4 hours after start-up the discovery messages were published,
\* all of them, followed by the telemetry of the snapshot.
DiscoveryBeforeTelemetryWitness ==
  /\ last.at = StartTime + AutoconfInterval + 1
  /\ autoconfTimestamp = last.at
  /\ Cardinality(DiscoveryIn(last.published)) = Len(Configs)
  /\ Cardinality(TelemetryIn(last.published)) = Cardinality(AllKeys)

\* A connect attempt succeeds in this step: a session is opened.
ConnectSucceeded == sessions' > sessions

\* A block read, or the decoding of its buffer, fails in this step.
DeviceError == TickEnded /\ last'.outcome \in {"io_error", "decode_error"}

\* C15: the flag follows the two-transition machine. It is false until
\* initialize has called connect, it becomes true only in a step in which a
\* connect attempt succeeds, and it becomes false only in a step in which a
\* block read or its decoding fails.
TwoTransitionMachine ==
  /\ [](initpc = "new" => ~connected)
  /\ [][~connected /\ connected' => ConnectSucceeded]_vars
  /\ [][connected /\ ~connected' => DeviceError]_vars

\* A register write is rejected by the transport in this step.
WriteFailed == Len(writes') < Len(writes) /\ lastWrite' = "failed"

\* C16: a register write that fails with an I/O error or timeout leaves the
\* flag false, as a failed block read does, so that the next tick connects
\* again.
WriteFailureDisconnects ==
  [][WriteFailed => ~connected']_vars

Connecting == {i \in Slots : inv[i].pc = "connecting"}

\* The connect() calls that await connectTCP.
PendingConnects ==
  Cardinality(Connecting) + (IF initpc = "connecting" THEN 1 ELSE 0)

\* The connect() that slot i awaits settles in this step.
SlotConnectSettled(i) == inv[i].pc = "connecting" /\ inv'[i].pc # "connecting"

\* Some connect() settles in this step.
ConnectSettled ==
  \/ initpc = "connecting" /\ initpc' = "done"
  \/ \E i \in Slots : SlotConnectSettled(i)

\* C17: connect keeps at most one transport session open. No state has more
\* than one open; while a connect awaits connectTCP the session that was
\* open has been closed and none is open; one attempt is awaited at a time,
\* and a connect that failed is not tried again within the tick; and when a
\* connect settles the flag is true if the attempt opened a session and
\* false if it did not.
OneSession ==
  /\ [](sessions \in {0, 1} /\ (isOpen <=> sessions = 1))
  /\ [](PendingConnects <= 1)
  /\ [](PendingConnects = 1 => sessions = 0)
  /\ [][ConnectSettled =>
          /\ sessions' \in {sessions, sessions + 1}
          /\ connected' <=> sessions' = sessions + 1]_vars
  /\ [][\A i \in Slots : SlotConnectSettled(i) /\ ~connected' =>
          inv'[i] = IdleInv /\ TickEnded]_vars

\* After a read failed with the session open, the next tick has closed it
\* and opened another, and is reading.
OneSessionWitness ==
  /\ last.outcome = "io_error"
  /\ sessions = 1
  /\ connected
  /\ \E i \in Reading : inv[i].didConnect

\* The reads of one poll cycle: start address and number of registers.
ReadOrder == <<
  <<30001, 6>>, <<30100, 2>>, <<32105, 1>>, <<32200, 5>>, <<37004, 5>>,
  <<33000, 4>>, <<35000, 3>>, <<35010, 2>>, <<35100, 1>>, <<41200, 1>>,
  <<42010, 2>>, <<42020, 2>>, <<43000, 1>> >>

\* C18: a poll cycle reads its blocks in the order of ReadOrder, one at a
\* time. The read awaited is the one of ReadOrder at its position, and the
\* blocks before it, and no others, have been read and decoded; a cycle
\* starts with the first block, and a read is followed by the next one of
\* the same cycle or by none; when a read or its decoding fails the tick ends
\* and no block is being read; and when the last block has been decoded the
\* listeners are called with all keys in the same step, before the tick ends.
BlockReadsInOrder ==
  /\ [](\A i \in Reading :
          /\ inv[i].blk \in 1..Len(ReadOrder)
          /\ Blocks[inv[i].blk].start = ReadOrder[inv[i].blk][1]
          /\ Blocks[inv[i].blk].count = ReadOrder[inv[i].blk][2]
          /\ DOMAIN inv[i].data =
               UNION {BlockKeys(c) : c \in 1..(inv[i].blk - 1)})
  /\ [][\A i \in Slots :
          inv'[i].pc = "reading" /\ inv'[i] # inv[i] =>
            IF inv[i].pc = "reading"
              THEN inv'[i].blk = inv[i].blk + 1
              ELSE inv'[i].blk = 1]_vars
  /\ [][DeviceError => Reading' = {} /\ last'.delivered = 0]_vars
  /\ [][\A i \in Slots :
          /\ inv[i].pc = "reading" /\ inv[i].blk = Len(ReadOrder)
          /\ inv'[i].pc # "reading"
          /\ ~DeviceError
          => /\ TickEnded
             /\ last'.snapshot = AllKeys
             /\ last'.registered = Len(listeners)
             /\ last'.registered > 0 => last'.delivered > 0]_vars

\* A second cycle awaits its last read after the first one delivered its
\* snapshot to every listener.
BlockReadsInOrderWitness ==
  /\ last.outcome = "emitted"
  /\ last.delivered = MaxListeners
  /\ \E i \in Reading : inv[i].blk = Len(ReadOrder) /\ ~inv[i].didConnect

\* C19: a cycle that completed called every listener that was registered,
\* once and with the snapshot, and a tick that did not complete its cycle
\* called none.
EveryListenerOnce ==
  /\ last.snapshot = AllKeys =>
       last.delivered = last.registered /\ last.threw = 0
  /\ last.snapshot # AllKeys => last.delivered = 0

\* C20: the delay of the timer the tick armed is interval - (now mod
\* interval) for the time now at which the tick ended: more than 0, at most
\* interval, and now + delay is a multiple of interval.
AlignedDelay ==
  last.outcome # "none" =>
    /\ last.delay = interval - (last.at % interval)
    /\ last.delay > 0
    /\ last.delay <= interval
    /\ (last.at + last.delay) % interval = 0

\* A tick ended on a boundary of an interval of more than 2 s after a failed
\* read, and its timer waits a full interval.
AlignedDelayWitness ==
  /\ last.outcome = "io_error"
  /\ interval > 2
  /\ last.at % interval = 0
  /\ last.delay = interval

\* The length of the buffer of a read that returned every register asked
\* for.
FullLength(b) == 2 * Blocks[b].count

\* C21: decoding stays within each block. The fields of the block that is
\* read lie inside count*2 bytes, so a buffer of that length does not make
\* the decoding throw; and a cycle in which a buffer was shorter than that
\* ends with a decode error and delivers no snapshot.
DecodeWithinBlock ==
  /\ \A i \in Reading : ~DecodeThrows(inv[i].blk, FullLength(inv[i].blk))
  /\ \A i \in Reading : ~inv[i].truncated
  /\ ~last.truncated

\* The tick that ended last polled the device after the write of the command
\* had succeeded, and emitted.
PolledAfterWrite ==
  /\ cmd.calls # <<>>
  /\ lastWrite = "ok"
  /\ last.at > StartTime
  /\ last.outcome = "emitted"

\* C22: the round trip of a write and a read. Every control is decoded, with
\* no factor, from the register its commands are written to; so when the
\* write of a command has succeeded and a poll cycle of a device that stores
\* written values has followed, the snapshot holds the written value under
\* the key of the command, and for a select control the label published for
\* the key is the label the command carried.
WriteReadRoundTrip ==
  /\ \A k \in DOMAIN CONTROLS :
       \E b \in 1..NumBlocks : \E f \in 1..Len(Blocks[b].fields) :
         /\ Blocks[b].fields[f].key = k
         /\ Blocks[b].fields[f].scale = "1"
         /\ Register(Blocks[b].start, Blocks[b].fields[f].off) =
              CONTROLS[k].register
  /\ \A k \in DOMAIN CONTROLS :
       cmd.topic = SetTopic(k) /\ PolledAfterWrite =>
         /\ last.data[k] = Code(cmd.calls[1].value)
         /\ \A j \in PublishedTo(last.published, StateTopic(k)) :
              IF k \in SelectKeys
                THEN last.published[j].payload = cmd.payload
                ELSE ParseInt(last.published[j].payload) =
                       Number(cmd.calls[1].value)
         /\ PublishedTo(last.published, StateTopic(k)) # {}

\* charge_to_soc was set to 50, which is written to the second register of
\* block 42010, and the poll cycle after it read 50 there.
WriteReadRoundTripWitness ==
  /\ cmd.topic = SetTopic("charge_to_soc")
  /\ cmd.payload = <<"5", "0">>
  /\ PolledAfterWrite
  /\ last.data["charge_to_soc"] = Code(50)
  /\ last.data["force_mode"] = Code(1)

\* connect closes the session of the client in this step.
SessionClosed == isOpen /\ ~isOpen'

\* C23: while a register write of a command awaits its response, connect
\* does not close the session the write was made on, nor open another in
\* its place.
SessionKeptUnderWrite ==
  [][writes # <<>> => ~SessionClosed /\ sessions' = sessions]_vars

\* C24: within a poll cycle each key has a register source of its own: no two
\* fields of the block that is read are taken from the same byte offset, and
\* in block 35010 min_cell_temperature and max_cell_temperature are not.
DistinctRegisterSources ==
  \A i \in Reading :
    \A f, g \in 1..Len(Blocks[inv[i].blk].fields) :
      f # g =>
        Blocks[inv[i].blk].fields[f].off # Blocks[inv[i].blk].fields[g].off

====
